---- MODULE Spec2Model ----
(***************************************************************************)
(* Model of the marketing application (src/marketing_app.py) and of its    *)
(* image generator (src/nova_canvas_integration.py).                       *)
(*                                                                         *)
(* Python dicts are records; a missing key is a missing record field.      *)
(* A Python call is an operator that yields Return(v) or Raise(e); every   *)
(* caller handles both, so that an exception that escapes a function is    *)
(* visible in the variable `uncaught`.                                     *)
(* The remote services (agents, image model, object store) and the local   *)
(* file system are the environment: every reply they can give is drawn     *)
(* with \E from a bounded set.                                             *)
(***************************************************************************)
EXTENDS Integers, Sequences, FiniteSets, TLC

VARIABLES
    campaign_history,   \* st.session_state.campaign_history
    generated_visuals,  \* st.session_state.generated_visuals
    pc,                 \* position of the running handler ("idle" between handlers)
    call,               \* the handler or library call being served, with its arguments
    campaign_results,   \* local dict of create_complete_campaign
    visuals_results,    \* local list `results` of generate_campaign_visuals
    i,                  \* loop index of the running image loop
    results,            \* main(): value returned by create_complete_campaign
    result,             \* last value returned by a single call (tab 2, tab 3, library caller)
    uncaught,           \* exception that escaped the last handler, NoneStr if none did
    agent_calls,        \* remote agent requests issued by the current handler
    image_calls,        \* image-model requests issued by the current handler
    file_system,        \* local files: set of [name, bytes]
    s3_objects,         \* object store: set of [bucket, key, body]
    next_file,          \* source of fresh file names (timestamp + uuid)
    generator,          \* the NovaCanvasGenerator in use: [s3_bucket, s3_client]
    cv_results          \* local dict `results` of generate_marketing_campaign_visuals

vars == <<campaign_history, generated_visuals, pc, call, campaign_results,
          visuals_results, i, results, result, uncaught, agent_calls,
          image_calls, file_system, s3_objects, next_file, generator, cv_results>>

appVars == <<campaign_history, generated_visuals, campaign_results,
             visuals_results, results>>

storeVars == <<file_system, s3_objects, next_file>>

----------------------------------------------------------------------------
(* Bounds *)

MaxEvents == 2          \* longest completion stream a direct agent call receives
MaxCampaigns == 2       \* campaigns kept in the history
MaxFiles == 3           \* file names the name source hands out to library callers
MaxButtonFiles == 2     \* the image button works while fewer names were handed out

----------------------------------------------------------------------------
(* Python values *)

None == [none |-> TRUE]         \* None in a dict-valued slot
NoneStr == "None"               \* None in a string-valued slot

Return(v) == [raised |-> FALSE, value |-> v]
Raise(e) == [raised |-> TRUE, exc |-> e]

Min(a, b) == IF a < b THEN a ELSE b

\* s[:n]
Prefix(s, n) == SubSeq(s, 1, Min(n, Len(s)))

----------------------------------------------------------------------------
(* Configuration, marketing_app.py:18-24 *)

SUPERVISOR_AGENT_ID == "E4NLVBHEHI"
CONTENT_AGENT_ID == "BSESL8XMSK"
VISUAL_AGENT_ID == "EMHWFO0REL"
AgentIds == {SUPERVISOR_AGENT_ID, CONTENT_AGENT_ID, VISUAL_AGENT_ID}

----------------------------------------------------------------------------
(* The remote agent endpoint *)

Chunk(b) == [chunk |-> [bytes |-> b]]
ChunkNoBytes == [chunk |-> [attribution |-> "a"]]
TraceEvent == [trace |-> "t"]
StreamError == [raises |-> "EventStreamError"]
BadBytes == "\\xff"             \* bytes that are not UTF-8

EventKinds == {Chunk("a"), Chunk("b"), Chunk(BadBytes), ChunkNoBytes, TraceEvent, StreamError}

StreamsUpTo(n) == UNION {[1..k -> EventKinds] : k \in 0..n}

\* what bedrock_agent_client.invoke_agent can do: raise, answer without a
\* completion stream, or answer with a stream of events
CallFails == [raises |-> "ClientError"]
NoCompletion == [response |-> [contentType |-> "text"]]
Completion(events) == [response |-> [completion |-> events]]

AgentReplies == {CallFails, NoCompletion} \cup {Completion(s) : s \in StreamsUpTo(MaxEvents)}

\* the replies the application is run against: a failing call and an answer
AppReplies == {CallFails, Completion(<<Chunk("a")>>)}

SessionIds == {NoneStr, "", "s1"}
GeneratedSessionId == "session_uuid"

\* the for loop over response['completion'], marketing_app.py:55-60
RECURSIVE ReadCompletion(_, _)
ReadCompletion(events, response_text) ==
    IF events = <<>> THEN Return(response_text)
    ELSE LET event == Head(events) IN
         IF "raises" \in DOMAIN event THEN Raise(event.raises)
         ELSE IF "chunk" \in DOMAIN event /\ "bytes" \in DOMAIN event.chunk
              THEN IF event.chunk.bytes = BadBytes
                   THEN Raise("UnicodeDecodeError")
                   ELSE ReadCompletion(Tail(events), response_text \o event.chunk.bytes)
              ELSE ReadCompletion(Tail(events), response_text)

\* the body of the try block, marketing_app.py:47-66
InvokeAgentTry(reply, session_id) ==
    IF "raises" \in DOMAIN reply THEN Raise(reply.raises)
    ELSE IF "completion" \notin DOMAIN reply.response THEN Raise("KeyError")
    ELSE LET text == ReadCompletion(reply.response.completion, "") IN
         IF text.raised THEN text
         ELSE Return([success |-> TRUE, response |-> text.value, session_id |-> session_id])

\* a slip: only the call is guarded, reading the stream is not
InvokeAgent_StreamUnguarded(agent_id, message, session_id, reply) ==
    LET sid == IF session_id = NoneStr \/ session_id = ""
               THEN GeneratedSessionId ELSE session_id
        body == InvokeAgentTry(reply, sid)
    IN  IF body.raised /\ "raises" \in DOMAIN reply
        THEN Return([success |-> FALSE, error |-> body.exc, session_id |-> sid])
        ELSE body

\* invoke_agent, marketing_app.py:40-73
InvokeAgent(agent_id, message, session_id, reply) ==
    LET sid == IF session_id = NoneStr \/ session_id = ""
               THEN GeneratedSessionId ELSE session_id
        body == InvokeAgentTry(reply, sid)
    IN  IF body.raised
        THEN Return([success |-> FALSE, error |-> body.exc, session_id |-> sid])
        ELSE body

AgentRequest(agent_id, message) == [agentId |-> agent_id, inputText |-> message]

----------------------------------------------------------------------------
(* A direct caller of invoke_agent *)

AgentInit ==
    /\ campaign_history = <<>>
    /\ generated_visuals = <<>>
    /\ pc = "idle"
    /\ call = None
    /\ campaign_results = None
    /\ visuals_results = <<>>
    /\ i = 0
    /\ results = None
    /\ result = None
    /\ uncaught = NoneStr
    /\ agent_calls = <<>>
    /\ image_calls = <<>>
    /\ file_system = {}
    /\ s3_objects = {}
    /\ next_file = 0
    /\ generator = [s3_bucket |-> NoneStr, s3_client |-> FALSE]
    /\ cv_results = None

CallInvokeAgent(agent_id, session_id, reply) ==
    LET r == InvokeAgent(agent_id, "m", session_id, reply) IN
    /\ pc = "idle"
    /\ call' = [op |-> "invoke_agent", session_id |-> session_id, reply |-> reply]
    /\ agent_calls' = <<AgentRequest(agent_id, "m")>>
    /\ IF r.raised
       THEN uncaught' = r.exc /\ result' = None
       ELSE uncaught' = NoneStr /\ result' = r.value
    /\ UNCHANGED <<appVars, storeVars, pc, i, image_calls, generator, cv_results>>

AgentNext ==
    \E agent_id \in AgentIds, session_id \in SessionIds, reply \in AgentReplies :
        CallInvokeAgent(agent_id, session_id, reply)

SpecAgent == AgentInit /\ [][AgentNext]_vars

----------------------------------------------------------------------------
(* The image model, the local file system and the object store *)

ModelFails == [raises |-> "ClientError"]
Body(b) == [body |-> b]
GoodPayload == "aGk="           \* base64 of "hi"
BadPayload == "a"               \* not decodable: incorrect padding

ModelReplies == {ModelFails,
                 Body([error |-> "throttled"]),
                 Body([images |-> <<>>]),
                 Body([images |-> <<BadPayload>>]),
                 Body([images |-> <<GoodPayload>>])}

DeliversImage(reply) ==
    /\ "body" \in DOMAIN reply
    /\ "images" \in DOMAIN reply.body
    /\ Len(reply.body.images) > 0
    /\ reply.body.images[1] = GoodPayload

\* an environment for one generate_marketing_image call: the model's reply,
\* what open()/write() do and what put_object does
ImageEnvs ==
    {e \in [backend : ModelReplies,
            fs : {"ok", "open_raises", "write_raises"},
            s3 : {"ok", "raises"}] :
        /\ ~DeliversImage(e.backend) => e.fs = "ok" /\ e.s3 = "ok"
        /\ e.fs # "ok" => e.s3 = "ok"}

\* base64.b64decode
B64Decode(payload) ==
    IF payload = GoodPayload THEN Return("hi") ELSE Raise("binascii.Error")

\* f"marketing_visual_{timestamp}_{uuid}.png": a name never handed out before
FileName(n) == "marketing_visual_" \o ToString(n) \o ".png"

\* os.path.abspath
AbsPath(filename) == "/cwd/" \o filename

\* f"{width}x{height}"
Dimensions(width, height) == ToString(width) \o "x" \o ToString(height)

\* NovaCanvasGenerator.__init__, nova_canvas_integration.py:18-27
NewGenerator(s3_bucket) ==
    [s3_bucket |-> s3_bucket,
     s3_client |-> (s3_bucket # NoneStr /\ s3_bucket # "")]

Buckets == {NoneStr, "", "my-bucket"}

DefaultQuality == "standard"
\* a slip: the upload is off unless asked for
DefaultSaveToS3_Off == FALSE

DefaultSaveToS3 == TRUE         \* nova_canvas_integration.py:35
DefaultSaveLocally == TRUE      \* nova_canvas_integration.py:36

Store == [file_system |-> file_system, s3_objects |-> s3_objects, next_file |-> next_file]

ImageRequest(prompt, width, height, quality) ==
    [text |-> prompt, width |-> width, height |-> height, quality |-> quality,
     numberOfImages |-> 1]

\* a slip: only the missing key is checked, not the empty array
NoImage_KeyOnly(response_body) ==
    "images" \notin DOMAIN response_body

\* the test of nova_canvas_integration.py:82
NoImage(response_body) ==
    "images" \notin DOMAIN response_body \/ Len(response_body.images) = 0

\* nova_canvas_integration.py:103-108: yields the results dict and the store
SaveLocally(res, image_bytes, save_locally, fs, store) ==
    IF ~save_locally THEN [raised |-> FALSE, value |-> res, store |-> store]
    ELSE IF fs = "open_raises"
    THEN [raised |-> TRUE, exc |-> "OSError", store |-> store]
    ELSE IF fs = "write_raises"
    THEN [raised |-> TRUE, exc |-> "OSError",
          store |-> [store EXCEPT !.file_system =
                        @ \cup {[name |-> res.filename, bytes |-> ""]}]]
    ELSE [raised |-> FALSE,
          value |-> [res EXCEPT !.local_path = AbsPath(res.filename)],
          store |-> [store EXCEPT !.file_system =
                        @ \cup {[name |-> res.filename, bytes |-> image_bytes]}]]

\* nova_canvas_integration.py:110-120
SaveToS3(self, res, image_bytes, save_to_s3, s3, store) ==
    IF ~(save_to_s3 /\ self.s3_client /\ self.s3_bucket \notin {NoneStr, ""})
    THEN [raised |-> FALSE, value |-> res, store |-> store]
    ELSE LET s3_key == "nova-canvas/" \o res.filename IN
         IF s3 = "raises"
         THEN [raised |-> TRUE, exc |-> "S3Error", store |-> store]
         ELSE [raised |-> FALSE,
               value |-> [res EXCEPT !.s3_url =
                             "s3://" \o self.s3_bucket \o "/" \o s3_key],
               store |-> [store EXCEPT !.s3_objects =
                             @ \cup {[bucket |-> self.s3_bucket, key |-> s3_key,
                                      body |-> image_bytes]}]]

\* the body of the try block, nova_canvas_integration.py:54-125
GenerateMarketingImageTry(self, prompt, width, height, quality, save_to_s3, save_locally, env, store) ==
    IF "raises" \in DOMAIN env.backend
    THEN [raised |-> TRUE, exc |-> env.backend.raises, store |-> store]
    ELSE LET response_body == env.backend.body IN
    IF NoImage(response_body)
    THEN [raised |-> FALSE, store |-> store,
          value |-> [success |-> FALSE, error |-> "No image generated"]]
    ELSE IF Len(response_body.images) = 0
    THEN [raised |-> TRUE, exc |-> "IndexError", store |-> store]
    ELSE LET decoded == B64Decode(response_body.images[1]) IN
    IF decoded.raised
    THEN [raised |-> TRUE, exc |-> decoded.exc, store |-> store]
    ELSE LET image_bytes == decoded.value
             filename == FileName(store.next_file)
             named == [store EXCEPT !.next_file = @ + 1]
             res == [success |-> TRUE,
                     filename |-> filename,
                     size_bytes |-> Len(image_bytes),
                     dimensions |-> Dimensions(width, height),
                     prompt |-> prompt,
                     local_path |-> NoneStr,
                     s3_url |-> NoneStr]
             local == SaveLocally(res, image_bytes, save_locally, env.fs, named)
         IN  IF local.raised THEN local
             ELSE SaveToS3(self, local.value, image_bytes, save_to_s3, env.s3, local.store)

\* generate_marketing_image, nova_canvas_integration.py:29-129
\* yields [raised, value, store, request]
GenerateMarketingImage(self, prompt, width, height, quality, save_to_s3, save_locally, env, store) ==
    LET body == GenerateMarketingImageTry(self, prompt, width, height, quality,
                                          save_to_s3, save_locally, env, store)
        request == ImageRequest(prompt, width, height, quality)
    IN  IF body.raised
        THEN [raised |-> FALSE, store |-> body.store, request |-> request,
              value |-> [success |-> FALSE, error |-> body.exc]]
        ELSE [raised |-> FALSE, store |-> body.store, request |-> request,
              value |-> body.value]

\* the formats table, nova_canvas_integration.py:134-139
formats ==
    [square |-> <<1024, 1024>>, story |-> <<1080, 1920>>,
     banner |-> <<1200, 630>>, wide |-> <<1024, 512>>]

FormatTypes == {"square", "story", "banner", "wide", "poster"}

\* a slip: the table's dimensions are passed on without the substitution
GenerateSocialMediaPost_NoSubstitute(self, prompt, format_type, env, store) ==
    IF format_type \notin DOMAIN formats
    THEN [raised |-> FALSE, store |-> store, called |-> FALSE,
          value |-> [success |-> FALSE,
                     error |-> "Unsupported format: " \o format_type]]
    ELSE LET size == formats[format_type]
             enhanced_prompt == "Social media " \o format_type \o " format: " \o prompt
             out == GenerateMarketingImage(self, enhanced_prompt, size[1], size[2],
                                           DefaultQuality, DefaultSaveToS3,
                                           DefaultSaveLocally, env, store)
         IN  [called |-> TRUE] @@ out

\* generate_social_media_post, nova_canvas_integration.py:131-157
\* yields [raised, value, store, called, request]
GenerateSocialMediaPost(self, prompt, format_type, env, store) ==
    IF format_type \notin DOMAIN formats
    THEN [raised |-> FALSE, store |-> store, called |-> FALSE,
          value |-> [success |-> FALSE,
                     error |-> "Unsupported format: " \o format_type]]
    ELSE LET size == IF format_type \in {"banner", "wide"}
                     THEN <<1024, 1024>> ELSE formats[format_type]
             enhanced_prompt == "Social media " \o format_type \o " format: " \o prompt
             out == GenerateMarketingImage(self, enhanced_prompt, size[1], size[2],
                                           DefaultQuality, DefaultSaveToS3,
                                           DefaultSaveLocally, env, store)
         IN  [called |-> TRUE] @@ out

\* dict.get(key, default)
Get(d, key, default) == IF key \in DOMAIN d THEN d[key] ELSE default

CampaignFormatNames == <<"social_post", "story", "banner">>

\* the prompts of nova_canvas_integration.py:162-181, in dict order
CampaignFormatPrompt(campaign_info, k) ==
    LET brand == Get(campaign_info, "brand", "Brand")
        product == Get(campaign_info, "product", "Product")
        style == Get(campaign_info, "style", "modern and professional")
        colors == Get(campaign_info, "colors", "blue and white")
        base_prompt == "Marketing visual for " \o brand \o " " \o product \o ", "
                       \o style \o " style, " \o colors \o " color scheme"
    IN  base_prompt \o <<", social media post format", ", Instagram story format",
                         ", marketing banner format">>[k]

\* a slip: the flag follows the last format instead of latching on a failure
CampaignVisualsRecord_LastWins(res, format_name, r) ==
    IF r.success
    THEN [res EXCEPT !.visuals = (format_name :> r) @@ @, !.success = TRUE]
    ELSE [res EXCEPT !.errors = Append(@, format_name \o ": " \o r.error),
                     !.success = FALSE]

\* the loop body of nova_canvas_integration.py:187-191
CampaignVisualsRecord(res, format_name, r) ==
    IF r.success
    THEN [res EXCEPT !.visuals = (format_name :> r) @@ @]
    ELSE [res EXCEPT !.errors = Append(@, format_name \o ": " \o r.error),
                     !.success = FALSE]

----------------------------------------------------------------------------
(* Callers of the NovaCanvasGenerator library *)

Prompts == {"p"}
Sizes == {<<1024, 1024>>, <<1080, 1920>>}
CampaignInfos == {[brand |-> "Acme", product |-> "Widget"], [style |-> "bold"]}

NovaInit ==
    /\ campaign_history = <<>>
    /\ generated_visuals = <<>>
    /\ pc = "idle"
    /\ call = None
    /\ campaign_results = None
    /\ visuals_results = <<>>
    /\ i = 0
    /\ results = None
    /\ result = None
    /\ uncaught = NoneStr
    /\ agent_calls = <<>>
    /\ image_calls = <<>>
    /\ file_system = {}
    /\ s3_objects = {}
    /\ next_file = 0
    /\ generator \in {NewGenerator(b) : b \in Buckets}
    /\ cv_results = None

SetStore(store) ==
    /\ file_system' = store.file_system
    /\ s3_objects' = store.s3_objects
    /\ next_file' = store.next_file

\* one entry of image_calls: the request sent and whether generate_marketing_image
\* reported success
ImageCall(out) ==
    [request |-> out.request,
     success |-> IF out.raised THEN FALSE ELSE out.value.success]

\* generator.generate_marketing_image(prompt, width, height, ...)
CallGenerateMarketingImage(prompt, size, save_to_s3, save_locally, env) ==
    /\ pc = "idle"
    /\ next_file < MaxFiles
    /\ LET out == GenerateMarketingImage(generator, prompt, size[1], size[2],
                      DefaultQuality, save_to_s3, save_locally, env, Store)
       IN  /\ SetStore(out.store)
           /\ call' = [op |-> "generate_marketing_image", flags_passed |-> TRUE,
                       save_to_s3 |-> save_to_s3,
                       save_locally |-> save_locally, env |-> env]
           /\ image_calls' = <<ImageCall(out)>>
           /\ IF out.raised
              THEN uncaught' = out.exc /\ result' = None
              ELSE uncaught' = NoneStr /\ result' = out.value
    /\ UNCHANGED <<appVars, pc, i, agent_calls, generator, cv_results>>

\* generator.generate_marketing_image(prompt, width, height): the caller passes
\* neither save flag, as nova_canvas_integration.py:205-209 does
CallGenerateMarketingImageDefaults(prompt, size, env) ==
    /\ pc = "idle"
    /\ next_file < MaxFiles
    /\ LET out == GenerateMarketingImage(generator, prompt, size[1], size[2],
                      DefaultQuality, DefaultSaveToS3, DefaultSaveLocally, env, Store)
       IN  /\ SetStore(out.store)
           /\ call' = [op |-> "generate_marketing_image", flags_passed |-> FALSE,
                       save_to_s3 |-> DefaultSaveToS3,
                       save_locally |-> DefaultSaveLocally, env |-> env]
           /\ image_calls' = <<ImageCall(out)>>
           /\ IF out.raised
              THEN uncaught' = out.exc /\ result' = None
              ELSE uncaught' = NoneStr /\ result' = out.value
    /\ UNCHANGED <<appVars, pc, i, agent_calls, generator, cv_results>>

\* generator.generate_social_media_post(prompt, format_type)
CallGenerateSocialMediaPost(prompt, format_type, env) ==
    /\ pc = "idle"
    /\ next_file < MaxFiles
    /\ LET out == GenerateSocialMediaPost(generator, prompt, format_type, env, Store)
       IN  /\ SetStore(out.store)
           /\ call' = [op |-> "generate_social_media_post",
                       format_type |-> format_type, env |-> env]
           /\ image_calls' = IF out.called THEN <<ImageCall(out)>> ELSE <<>>
           /\ IF out.raised
              THEN uncaught' = out.exc /\ result' = None
              ELSE uncaught' = NoneStr /\ result' = out.value
    /\ UNCHANGED <<appVars, pc, i, agent_calls, generator, cv_results>>

\* generator.generate_marketing_campaign_visuals(campaign_info): entry,
\* nova_canvas_integration.py:159-181
StartCampaignVisuals(campaign_info) ==
    /\ pc = "idle"
    /\ next_file + Len(CampaignFormatNames) <= MaxFiles
    /\ cv_results' = [campaign |-> campaign_info, visuals |-> <<>>,
                      success |-> TRUE, errors |-> <<>>]
    /\ i' = 1
    /\ pc' = "campaign_visuals_loop"
    /\ call' = [op |-> "generate_marketing_campaign_visuals",
                campaign_info |-> campaign_info]
    /\ image_calls' = <<>>
    /\ result' = None
    /\ uncaught' = NoneStr
    /\ UNCHANGED <<appVars, storeVars, agent_calls, generator>>

\* one iteration of the loop of nova_canvas_integration.py:183-191, and the
\* return of line 193 after the last one
CampaignVisualsStep(env) ==
    /\ pc = "campaign_visuals_loop"
    /\ LET format_name == CampaignFormatNames[i]
           out == GenerateSocialMediaPost(generator,
                      CampaignFormatPrompt(cv_results.campaign, i), "square", env, Store)
       IN  /\ SetStore(out.store)
           /\ image_calls' = IF out.called
                             THEN Append(image_calls, ImageCall(out))
                             ELSE image_calls
           /\ IF out.raised
              THEN /\ uncaught' = out.exc
                   /\ pc' = "idle"
                   /\ UNCHANGED <<cv_results, i, result>>
              ELSE LET res == CampaignVisualsRecord(cv_results, format_name, out.value) IN
                   /\ uncaught' = NoneStr
                   /\ IF i = Len(CampaignFormatNames)
                      THEN pc' = "idle" /\ result' = res /\ cv_results' = None /\ i' = 0
                      ELSE pc' = pc /\ result' = result /\ cv_results' = res /\ i' = i + 1
    /\ UNCHANGED <<appVars, call, agent_calls, generator>>

NovaNext ==
    \/ \E prompt \in Prompts, size \in Sizes, save_to_s3 \in BOOLEAN,
          save_locally \in BOOLEAN, env \in ImageEnvs :
          CallGenerateMarketingImage(prompt, size, save_to_s3, save_locally, env)
    \/ \E prompt \in Prompts, size \in Sizes, env \in ImageEnvs :
          CallGenerateMarketingImageDefaults(prompt, size, env)
    \/ \E prompt \in Prompts, format_type \in FormatTypes, env \in ImageEnvs :
          CallGenerateSocialMediaPost(prompt, format_type, env)
    \/ \E campaign_info \in CampaignInfos : StartCampaignVisuals(campaign_info)
    \/ \E env \in ImageEnvs : CampaignVisualsStep(env)

SpecNova == NovaInit /\ [][NovaNext]_vars

----------------------------------------------------------------------------
(* MarketingAppV2, marketing_app.py *)

Brands == {"", "Acme"}
Products == {"", "Widget"}
Briefs == [brand : Brands, product : Products, audience : {""}, goals : {""},
           budget : {""}, timeline : {""}]

\* the environments the application's image calls are run against: the model
\* fails, answers with no image or answers with one; the local disk works
AppImageEnvs ==
    {e \in ImageEnvs : /\ e.fs = "ok" /\ e.s3 = "ok"
                       /\ e.backend \in {ModelFails, Body([images |-> <<>>]),
                                         Body([images |-> <<GoodPayload>>])}}

\* generate_marketing_strategy, marketing_app.py:75-96
StrategyPrompt(campaign_brief) ==
    "Create a comprehensive marketing strategy for the following campaign:"
    \o " Brand: " \o Get(campaign_brief, "brand", "N/A")
    \o " Product/Service: " \o Get(campaign_brief, "product", "N/A")
    \o " Target Audience: " \o Get(campaign_brief, "audience", "N/A")
    \o " Campaign Goals: " \o Get(campaign_brief, "goals", "N/A")
    \o " Budget Range: " \o Get(campaign_brief, "budget", "N/A")
    \o " Timeline: " \o Get(campaign_brief, "timeline", "N/A")

GenerateMarketingStrategy(campaign_brief, reply) ==
    InvokeAgent(SUPERVISOR_AGENT_ID, StrategyPrompt(campaign_brief), NoneStr, reply)

\* generate_content, marketing_app.py:98-112
ContentPrompt(content_brief) ==
    "Generate marketing content for the following brief: " \o content_brief

GenerateContent(content_brief, reply) ==
    InvokeAgent(CONTENT_AGENT_ID, ContentPrompt(content_brief), NoneStr, reply)

\* generate_visual_concepts, marketing_app.py:114-129
VisualPrompt(visual_brief) ==
    "Create visual content concepts for: " \o visual_brief

GenerateVisualConcepts(visual_brief, reply) ==
    InvokeAgent(VISUAL_AGENT_ID, VisualPrompt(visual_brief), NoneStr, reply)

\* marketing_app.py:184
ContentBrief(campaign_brief, strategy_result) ==
    "Based on this strategy: " \o Prefix(strategy_result.response, 500)
    \o "... Create content for " \o campaign_brief.brand \o " " \o campaign_brief.product

\* marketing_app.py:190
VisualBrief(campaign_brief) ==
    "Create visual concepts for " \o campaign_brief.brand \o " "
    \o campaign_brief.product \o " targeting " \o campaign_brief.audience

\* a slip: a fourth prompt in the list
SamplePrompts_Four(campaign_brief) ==
    <<"Professional marketing banner for " \o campaign_brief.brand \o " "
         \o campaign_brief.product \o ", modern design, high quality",
      "Social media post visual for " \o campaign_brief.brand
         \o ", engaging and vibrant, call-to-action style",
      "Product showcase image for " \o campaign_brief.product
         \o ", clean background, professional lighting",
      "Logo for " \o campaign_brief.brand>>

\* sample_prompts, marketing_app.py:199-203
SamplePrompts(campaign_brief) ==
    <<"Professional marketing banner for " \o campaign_brief.brand \o " "
         \o campaign_brief.product \o ", modern design, high quality",
      "Social media post visual for " \o campaign_brief.brand
         \o ", engaging and vibrant, call-to-action style",
      "Product showcase image for " \o campaign_brief.product
         \o ", clean background, professional lighting">>

\* the dict of marketing_app.py:164-171 (the timestamp is left out)
NewCampaignResults(campaign_brief) ==
    [brief |-> campaign_brief, strategy |-> None, content |-> None,
     visual_concepts |-> None, generated_visuals |-> <<>>]

\* the entry of marketing_app.py:149-154; size_mb is size_bytes / (1024 * 1024)
VisualEntry(prompt, r) ==
    [prompt |-> prompt, filename |-> r.filename, local_path |-> r.local_path,
     size_mb |-> [bytes |-> r.size_bytes, per |-> 1024 * 1024]]

\* a slip: the newest visual is put in front
CollectVisual_Front(res, prompt, r) ==
    IF r.success THEN <<VisualEntry(prompt, r)>> \o res ELSE res

\* `if result['success']: results.append({...})`, marketing_app.py:148-154
CollectVisual(res, prompt, r) ==
    IF r.success THEN Append(res, VisualEntry(prompt, r)) ELSE res

\* a slip: the session list gets every result, failed ones too
RecordVisual_Every(visuals, r) == Append(visuals, r)

\* `st.session_state.generated_visuals.append(result)` under
\* `if result['success']`, marketing_app.py:148, 157
RecordVisual(visuals, r) == IF r.success THEN Append(visuals, r) ELSE visuals

\* a slip: a failed strategy does not end the run
StrategyHalts_Never(strategy_result) == FALSE

\* `if not strategy_result['success']`, marketing_app.py:178
StrategyHalts(strategy_result) == ~strategy_result.success

\* a slip: the images are generated whatever the concepts call returned
RunsImageBatch_Always(visual_concepts_result) == TRUE

\* `if visual_concepts_result['success']`, marketing_app.py:195
RunsImageBatch(visual_concepts_result) == visual_concepts_result.success

\* a slip: a failed generation is tried again
NextPrompt_RetryFailed(k, r) == IF r.success THEN k + 1 ELSE k

\* `for i, prompt in enumerate(visual_prompts)`, marketing_app.py:136: the
\* loop moves to the next prompt whatever the generation returned
NextPrompt(k, r) == k + 1

\* a slip: the history keeps the latest campaign only
SaveToHistory_Latest(history, campaign) == <<campaign>>

\* st.session_state.campaign_history.append, marketing_app.py:209
SaveToHistory(history, campaign) == Append(history, campaign)

\* a slip: the form starts the pipeline when either field is filled in
StartsPipeline_Either(brand, product) == brand # "" \/ product # ""

\* `brand and product`, marketing_app.py:262
StartsPipeline(brand, product) == brand # "" /\ product # ""

Init ==
    /\ campaign_history = <<>>
    /\ generated_visuals = <<>>
    /\ pc = "idle"
    /\ call = None
    /\ campaign_results = None
    /\ visuals_results = <<>>
    /\ i = 0
    /\ results = None
    /\ result = None
    /\ uncaught = NoneStr
    /\ agent_calls = <<>>
    /\ image_calls = <<>>
    /\ file_system = {}
    /\ s3_objects = {}
    /\ next_file = 0
    /\ generator = NewGenerator(NoneStr)
    /\ cv_results = None

\* an exception leaves the handler: the script run ends
Abort(exc) ==
    /\ uncaught' = exc
    /\ pc' = "idle"
    /\ campaign_results' = None
    /\ UNCHANGED <<campaign_history, generated_visuals, visuals_results, results, i>>

\* the campaign form is submitted, marketing_app.py:260-273 and 161-171
SubmitCampaignForm(brief) ==
    /\ pc = "idle"
    /\ call' = [op |-> "campaign_form", brief |-> brief]
    /\ result' = None
    /\ results' = None
    /\ uncaught' = NoneStr
    /\ agent_calls' = <<>>
    /\ image_calls' = <<>>
    /\ visuals_results' = <<>>
    /\ i' = 0
    /\ IF StartsPipeline(brief.brand, brief.product)
       THEN /\ Len(campaign_history) < MaxCampaigns
            /\ campaign_results' = NewCampaignResults(brief)
            /\ pc' = "strategy"
       ELSE /\ campaign_results' = None
            /\ pc' = "idle"
    /\ UNCHANGED <<campaign_history, generated_visuals, storeVars, generator, cv_results>>

\* step 1, marketing_app.py:173-180
StrategyStep(reply) ==
    /\ pc = "strategy"
    /\ agent_calls' = Append(agent_calls,
           AgentRequest(SUPERVISOR_AGENT_ID, StrategyPrompt(campaign_results.brief)))
    /\ LET r == GenerateMarketingStrategy(campaign_results.brief, reply) IN
       IF r.raised THEN Abort(r.exc)
       ELSE LET cr == [campaign_results EXCEPT !.strategy = r.value] IN
            /\ uncaught' = NoneStr
            /\ IF StrategyHalts(r.value)
               THEN /\ results' = cr
                    /\ campaign_results' = None
                    /\ pc' = "idle"
               ELSE /\ results' = results
                    /\ campaign_results' = cr
                    /\ pc' = "content"
            /\ UNCHANGED <<campaign_history, generated_visuals, visuals_results, i>>
    /\ UNCHANGED <<call, result, image_calls, storeVars, generator, cv_results>>

\* step 2, marketing_app.py:182-186
ContentStep(reply) ==
    /\ pc = "content"
    /\ IF "response" \notin DOMAIN campaign_results.strategy
       THEN Abort("KeyError") /\ UNCHANGED agent_calls
       ELSE LET content_brief == ContentBrief(campaign_results.brief,
                                              campaign_results.strategy)
                r == GenerateContent(content_brief, reply)
            IN  /\ agent_calls' = Append(agent_calls,
                       AgentRequest(CONTENT_AGENT_ID, ContentPrompt(content_brief)))
                /\ IF r.raised THEN Abort(r.exc)
                   ELSE /\ campaign_results' = [campaign_results EXCEPT !.content = r.value]
                        /\ pc' = "visual_concepts"
                        /\ UNCHANGED <<campaign_history, generated_visuals,
                                       visuals_results, results, i, uncaught>>
    /\ UNCHANGED <<call, result, image_calls, storeVars, generator, cv_results>>

\* steps 3 and, when the concepts failed, 5: marketing_app.py:188-195, 208-211
VisualConceptsStep(reply) ==
    /\ pc = "visual_concepts"
    /\ LET visual_brief == VisualBrief(campaign_results.brief)
           r == GenerateVisualConcepts(visual_brief, reply)
       IN  /\ agent_calls' = Append(agent_calls,
                  AgentRequest(VISUAL_AGENT_ID, VisualPrompt(visual_brief)))
           /\ IF r.raised THEN Abort(r.exc)
              ELSE LET cr == [campaign_results EXCEPT !.visual_concepts = r.value] IN
                   /\ uncaught' = NoneStr
                   /\ generated_visuals' = generated_visuals
                   /\ visuals_results' = <<>>
                   /\ IF RunsImageBatch(r.value)
                      THEN /\ campaign_results' = cr
                           /\ i' = 1
                           /\ pc' = "visuals"
                           /\ UNCHANGED <<campaign_history, results>>
                      ELSE /\ campaign_history' = SaveToHistory(campaign_history, cr)
                           /\ results' = cr
                           /\ campaign_results' = None
                           /\ i' = i
                           /\ pc' = "idle"
    /\ UNCHANGED <<call, result, image_calls, storeVars, generator, cv_results>>

\* step 4: one iteration of the loop of generate_campaign_visuals,
\* marketing_app.py:136-157, and after the last one lines 159, 205-211
VisualsStep(env) ==
    /\ pc = "visuals"
    /\ LET prompt == SamplePrompts(campaign_results.brief)[i]
           out == GenerateMarketingImage(generator, prompt, 1024, 1024,
                      DefaultQuality, FALSE, TRUE, env, Store)
       IN  /\ SetStore(out.store)
           /\ image_calls' = Append(image_calls, ImageCall(out))
           /\ IF out.raised
              THEN Abort(out.exc)
              ELSE LET r == out.value
                       res == CollectVisual(visuals_results, prompt, r)
                   IN  /\ uncaught' = NoneStr
                       /\ generated_visuals' = RecordVisual(generated_visuals, r)
                       /\ IF NextPrompt(i, r) <= Len(SamplePrompts(campaign_results.brief))
                          THEN /\ visuals_results' = res
                               /\ i' = NextPrompt(i, r)
                               /\ pc' = pc
                               /\ UNCHANGED <<campaign_results, campaign_history, results>>
                          ELSE LET cr == [campaign_results EXCEPT
                                             !.generated_visuals = res] IN
                               /\ visuals_results' = res
                               /\ i' = i
                               /\ campaign_history' = SaveToHistory(campaign_history, cr)
                               /\ results' = cr
                               /\ campaign_results' = None
                               /\ pc' = "idle"
    /\ UNCHANGED <<call, result, agent_calls, generator, cv_results>>

BriefTexts == {"", "brief"}

\* a button handler starts: the script reruns with fresh locals
FreshRun ==
    /\ results' = None
    /\ campaign_results' = None
    /\ visuals_results' = <<>>
    /\ i' = 0
    /\ UNCHANGED <<campaign_history, generated_visuals>>

\* tab 2, marketing_app.py:315-324
GenerateContentButton(content_brief, reply) ==
    /\ pc = "idle"
    /\ call' = [op |-> "content_button", text |-> content_brief]
    /\ FreshRun
    /\ image_calls' = <<>>
    /\ IF content_brief = ""
       THEN result' = None /\ uncaught' = NoneStr /\ agent_calls' = <<>>
       ELSE LET r == GenerateContent(content_brief, reply) IN
            /\ agent_calls' = <<AgentRequest(CONTENT_AGENT_ID, ContentPrompt(content_brief))>>
            /\ IF r.raised
               THEN uncaught' = r.exc /\ result' = None
               ELSE uncaught' = NoneStr /\ result' = r.value
    /\ UNCHANGED <<pc, storeVars, generator, cv_results>>

\* tab 3, left column, marketing_app.py:340-349
GenerateVisualConceptsButton(visual_brief, reply) ==
    /\ pc = "idle"
    /\ call' = [op |-> "visual_concepts_button", text |-> visual_brief]
    /\ FreshRun
    /\ image_calls' = <<>>
    /\ IF visual_brief = ""
       THEN result' = None /\ uncaught' = NoneStr /\ agent_calls' = <<>>
       ELSE LET r == GenerateVisualConcepts(visual_brief, reply) IN
            /\ agent_calls' = <<AgentRequest(VISUAL_AGENT_ID, VisualPrompt(visual_brief))>>
            /\ IF r.raised
               THEN uncaught' = r.exc /\ result' = None
               ELSE uncaught' = NoneStr /\ result' = r.value
    /\ UNCHANGED <<pc, storeVars, generator, cv_results>>

\* tab 3, right column, marketing_app.py:359-375
GenerateImageButton(image_prompt, env) ==
    /\ pc = "idle"
    /\ next_file < MaxButtonFiles
    /\ call' = [op |-> "image_button", text |-> image_prompt]
    /\ FreshRun
    /\ agent_calls' = <<>>
    /\ IF image_prompt = ""
       THEN /\ result' = None /\ uncaught' = NoneStr /\ image_calls' = <<>>
            /\ UNCHANGED storeVars
       ELSE LET out == GenerateMarketingImage(generator, image_prompt, 1024, 1024,
                           DefaultQuality, DefaultSaveToS3, DefaultSaveLocally,
                           env, Store)
            IN  /\ SetStore(out.store)
                /\ image_calls' = <<ImageCall(out)>>
                /\ IF out.raised
                   THEN uncaught' = out.exc /\ result' = None
                   ELSE uncaught' = NoneStr /\ result' = out.value
    /\ UNCHANGED <<pc, generator, cv_results>>

Next ==
    \/ \E brief \in Briefs : SubmitCampaignForm(brief)
    \/ \E reply \in AppReplies : StrategyStep(reply)
    \/ \E reply \in AppReplies : ContentStep(reply)
    \/ \E reply \in AppReplies : VisualConceptsStep(reply)
    \/ \E env \in AppImageEnvs : VisualsStep(env)
    \/ \E text \in BriefTexts, reply \in AppReplies : GenerateContentButton(text, reply)
    \/ \E text \in BriefTexts, reply \in AppReplies : GenerateVisualConceptsButton(text, reply)
    \/ \E text \in BriefTexts, env \in AppImageEnvs : GenerateImageButton(text, env)

Spec == Init /\ [][Next]_vars

----------------------------------------------------------------------------
(* Claims about invoke_agent *)

\* the reply makes the remote call or the reading of some chunk fail
ReplyFails(reply) ==
    \/ "raises" \in DOMAIN reply
    \/ "completion" \notin DOMAIN reply.response
    \/ \E k \in DOMAIN reply.response.completion :
          LET event == reply.response.completion[k] IN
          \/ event = StreamError
          \/ event = Chunk(BadBytes)

\* C5: invoke_agent never lets a failure escape to its caller: when the remote
\* call or the reading of a chunk fails it returns success=false with an error;
\* every result it returns has session_id, and has response without error when
\* success is true, error without response when success is false.
C5_InvokeNeverRaisesTaggedUnion ==
    call # None /\ call.op = "invoke_agent" =>
        /\ uncaught = NoneStr
        /\ result # None
        /\ "session_id" \in DOMAIN result
        /\ result.session_id \notin {NoneStr, ""}
        /\ ReplyFails(call.reply) => result.success = FALSE
        /\ result.success = TRUE =>
              "response" \in DOMAIN result /\ "error" \notin DOMAIN result
        /\ result.success = FALSE =>
              "error" \in DOMAIN result /\ "response" \notin DOMAIN result

\* a chunk was read and then the stream failed: the call returned a failure
C5_Witness ==
    /\ call # None /\ call.op = "invoke_agent"
    /\ call.reply = Completion(<<Chunk("a"), StreamError>>)
    /\ result # None /\ result.success = FALSE
    /\ result.error = "EventStreamError"
    /\ uncaught = NoneStr

----------------------------------------------------------------------------
(* Claims about the NovaCanvasGenerator library *)

\* the model answered, but without an image payload
NoPayload(reply) ==
    /\ "body" \in DOMAIN reply
    /\ "images" \notin DOMAIN reply.body \/ reply.body.images = <<>>

\* C6: when the model's response has no image payload (images missing or
\* empty), generate_marketing_image returns {success: false, error: "No image
\* generated"} without raising and writes no local file and uploads no object,
\* whatever the save flags are.
C6_NoImageNoWrite ==
    [][(/\ pc = "idle" /\ pc' = "idle"
        /\ call' # None /\ call'.op = "generate_marketing_image"
        /\ NoPayload(call'.env.backend))
       => /\ result' = [success |-> FALSE, error |-> "No image generated"]
          /\ uncaught' = NoneStr
          /\ file_system' = file_system
          /\ s3_objects' = s3_objects]_vars

\* an empty images array arrived at a generator with a bucket, both flags set
C6_Witness ==
    /\ call # None /\ call.op = "generate_marketing_image"
    /\ call.env.backend = Body([images |-> <<>>])
    /\ call.save_to_s3 /\ call.save_locally
    /\ generator.s3_client
    /\ result = [success |-> FALSE, error |-> "No image generated"]

\* C7: generate_marketing_campaign_visuals returns success=false iff at least
\* one of its three format generations failed; its errors list is as long as
\* the number of failed formats and visuals holds exactly the formats that
\* succeeded.
C7_CampaignSetAggregate ==
    (pc = "idle" /\ call # None /\ call.op = "generate_marketing_campaign_visuals"
     /\ uncaught = NoneStr) =>
        LET all == 1..Len(CampaignFormatNames)
            failed == {k \in all : ~image_calls[k].success}
        IN  /\ Len(image_calls) = 3
            /\ (result.success = FALSE) <=> (failed # {})
            /\ Len(result.errors) = Cardinality(failed)
            /\ DOMAIN result.visuals = {CampaignFormatNames[k] : k \in all \ failed}
            /\ \A k \in all \ failed : result.visuals[CampaignFormatNames[k]].success

\* the story format failed, the two others succeeded
C7_Witness ==
    /\ pc = "idle" /\ call # None /\ call.op = "generate_marketing_campaign_visuals"
    /\ Len(image_calls) = 3
    /\ image_calls[1].success /\ ~image_calls[2].success /\ image_calls[3].success
    /\ result.success = FALSE
    /\ Len(result.errors) = 1
    /\ DOMAIN result.visuals = {"social_post", "banner"}

SuccessKeys == {"success", "filename", "size_bytes", "dimensions", "prompt",
                "local_path", "s3_url"}

\* the image model, the file system and the object store all do their part
EnvSucceeds(env) == DeliversImage(env.backend) /\ env.fs = "ok" /\ env.s3 = "ok"

\* C8: generate_social_media_post with a format whose aspect the backend does
\* not support (banner, wide) never fails on account of the format: it calls
\* generate_marketing_image with 1024x1024 and returns what that returns, so
\* that with a succeeding backend the result is a success dict of the usual
\* shape with dimensions "1024x1024".
C8_UnsupportedAspectUsesSquare ==
    (pc = "idle" /\ call # None /\ call.op = "generate_social_media_post"
     /\ call.format_type \in {"banner", "wide"}) =>
        /\ uncaught = NoneStr
        /\ Len(image_calls) = 1
        /\ image_calls[1].request.width = 1024
        /\ image_calls[1].request.height = 1024
        /\ result.success = image_calls[1].success
        /\ ~result.success =>
              result.error # "Unsupported format: " \o call.format_type
        /\ EnvSucceeds(call.env) =>
              /\ result.success
              /\ DOMAIN result = SuccessKeys
              /\ result.dimensions = "1024x1024"

\* a banner was asked for and a 1024x1024 image was generated
C8_Witness ==
    /\ pc = "idle" /\ call # None /\ call.op = "generate_social_media_post"
    /\ call.format_type = "banner"
    /\ result.success
    /\ result.dimensions = "1024x1024"
    /\ result.prompt = "Social media banner format: p"

----------------------------------------------------------------------------
(* Claims about create_complete_campaign and the campaign form *)

\* the form was submitted with brand and product filled in, and the handler
\* it started has ended
CampaignDone ==
    /\ pc = "idle"
    /\ call # None /\ call.op = "campaign_form"
    /\ call.brief.brand # "" /\ call.brief.product # ""

Invoked(agent_id) == {k \in DOMAIN agent_calls : agent_calls[k].agentId = agent_id}

\* C1 as stated: whatever the strategy stage returned, every run on a brief
\* with brand and product invokes the content agent and records its result in
\* the content field of the result.
C1_ContentAlwaysAttempted ==
    CampaignDone =>
        /\ results # None
        /\ results.content # None
        /\ Invoked(CONTENT_AGENT_ID) # {}

\* C1: every run on a brief with brand and product returns a result that
\* records the strategy outcome; the content agent is invoked, and its result
\* recorded in the content field, exactly when the strategy stage succeeded
\* (whether the content call then succeeds or fails); after a failed strategy
\* the run returns at once with content absent and no content call made.
C1_ContentAttemptedIffStrategySucceeded ==
    CampaignDone =>
        /\ uncaught = NoneStr
        /\ results # None
        /\ results.strategy # None
        /\ Cardinality(Invoked(SUPERVISOR_AGENT_ID)) = 1
        /\ IF results.strategy.success
           THEN /\ results.content # None
                /\ Cardinality(Invoked(CONTENT_AGENT_ID)) = 1
           ELSE /\ results.content = None
                /\ Invoked(CONTENT_AGENT_ID) = {}
                /\ Len(agent_calls) = 1

\* the strategy failed: the run ended without a content call
C1_Witness ==
    /\ CampaignDone
    /\ results # None
    /\ ~results.strategy.success
    /\ results.content = None
    /\ Invoked(CONTENT_AGENT_ID) = {}

AllImagesSucceeded ==
    /\ Len(image_calls) = 3
    /\ \A k \in 1..3 : image_calls[k].success

\* C2 as stated: the image batch depends on the visual-concepts outcome only,
\* whatever the strategy outcome: the visual-concepts stage is run and images
\* are attempted iff it succeeded; and a run whose strategy failed, and whose
\* other calls succeed, returns strategy.success=false, content.success=true,
\* visual_concepts.success=true and three generated visuals.
C2_ImageBatchWhateverStrategy ==
    CampaignDone =>
        /\ results # None
        /\ results.visual_concepts # None
        /\ (image_calls # <<>>) <=> results.visual_concepts.success
        /\ ~results.strategy.success =>
              /\ results.content # None
              /\ (results.content.success /\ results.visual_concepts.success
                  /\ AllImagesSucceeded) => Len(results.generated_visuals) = 3

\* C2: once the strategy call has succeeded, the image batch depends on the
\* visual-concepts outcome only: images are attempted iff the visual-concepts
\* call succeeded, whatever the content outcome; when the content call fails
\* and the visual-concepts call and the three generations succeed the result
\* has content.success=false, visual_concepts.success=true and three visuals.
\* After a failed strategy call neither the visual-concepts call nor any image
\* generation is made and generated_visuals is empty.
C2_ImageBatchAfterStrategy ==
    CampaignDone =>
        /\ results # None
        /\ IF results.strategy.success
           THEN /\ results.content # None
                /\ results.visual_concepts # None
                /\ (image_calls # <<>>) <=> results.visual_concepts.success
                /\ results.visual_concepts.success => Len(image_calls) = 3
                /\ (results.visual_concepts.success /\ AllImagesSucceeded) =>
                      Len(results.generated_visuals) = 3
           ELSE /\ results.visual_concepts = None
                /\ Invoked(VISUAL_AGENT_ID) = {}
                /\ image_calls = <<>>
                /\ results.generated_visuals = <<>>

\* strategy succeeded, content failed, concepts and the three images succeeded
C2_Witness ==
    /\ CampaignDone
    /\ results # None
    /\ results.strategy.success
    /\ results.content # None /\ ~results.content.success
    /\ results.visual_concepts # None /\ results.visual_concepts.success
    /\ AllImagesSucceeded
    /\ Len(results.generated_visuals) = 3

\* the campaign results the application holds: the one under construction,
\* the one last returned and the ones in the history
CampaignResults ==
    {cr \in {campaign_results, results} : cr # None}
        \cup {campaign_history[k] : k \in DOMAIN campaign_history}

ConceptsFailed(cr) ==
    \/ cr.visual_concepts = None
    \/ ~cr.visual_concepts.success

\* C3: in every campaign result, generated_visuals has between 0 and 3
\* entries, and none when the visual-concepts stage failed or was not reached.
C3_VisualsLength ==
    /\ \A cr \in CampaignResults :
          /\ Len(cr.generated_visuals) \in 0..3
          /\ ConceptsFailed(cr) => Len(cr.generated_visuals) = 0
    /\ (pc = "visuals" \/ CampaignDone) => Len(visuals_results) \in 0..3

\* the history holds a campaign with three visuals and the run just returned
\* had its visual-concepts call fail
C3_Witness ==
    /\ CampaignDone
    /\ results # None
    /\ results.visual_concepts # None /\ ~results.visual_concepts.success
    /\ results.generated_visuals = <<>>
    /\ \E k \in DOMAIN campaign_history : Len(campaign_history[k].generated_visuals) = 3

\* a run of create_complete_campaign returns in this step
Returns == pc # "idle" /\ pc' = "idle" /\ uncaught' = NoneStr /\ results' # None

\* C4 as stated: every run, whatever its stages returned, appends the result
\* it returns to the history.
C4_EveryRunAppends ==
    [][Returns => campaign_history' = Append(campaign_history, results')]_vars

\* C4: a run whose strategy stage succeeded appends exactly one entry to the
\* history, the result it returns; a run whose strategy stage failed returns
\* its result and leaves the history as it was. Nothing else touches the
\* history: earlier entries stay unchanged and in call order.
C4_AppendOnlyHistory ==
    [][IF Returns /\ results'.strategy.success
       THEN campaign_history' = Append(campaign_history, results')
       ELSE campaign_history' = campaign_history]_vars

\* a run was appended and the next run, whose strategy failed, was not
C4_Witness ==
    /\ CampaignDone
    /\ results # None /\ ~results.strategy.success
    /\ Len(campaign_history) = 1
    /\ campaign_history[1].strategy.success
    /\ results \notin {campaign_history[k] : k \in DOMAIN campaign_history}

\* C9: a campaign form submitted with brand or product blank starts nothing:
\* no agent or image call is issued, no campaign result is produced, and the
\* campaign history, the generated-visuals list and the stores are unchanged.
C9_BlankFormStartsNothing ==
    [][(/\ pc = "idle"
        /\ call' # None /\ call'.op = "campaign_form"
        /\ call'.brief.brand = "" \/ call'.brief.product = "")
       => /\ pc' = "idle"
          /\ agent_calls' = <<>>
          /\ image_calls' = <<>>
          /\ results' = None
          /\ campaign_results' = None
          /\ uncaught' = NoneStr
          /\ UNCHANGED <<campaign_history, generated_visuals, storeVars>>]_vars

\* a form with the brand blank was submitted after a campaign had been made
C9_Witness ==
    /\ pc = "idle"
    /\ call # None /\ call.op = "campaign_form"
    /\ call.brief.brand = "" /\ call.brief.product = "Widget"
    /\ results = None
    /\ agent_calls = <<>>
    /\ Len(campaign_history) = 1
    /\ Len(generated_visuals) = 3

\* C10: within one run of the pipeline no call is made twice: the supervisor,
\* content and visual agents are invoked at most once each, in that order, and
\* the image model at most once per prompt, three times at most; a failed
\* generation is followed by the next prompt.
C10_NoRetry ==
    (call # None /\ call.op = "campaign_form") =>
        /\ \A a \in AgentIds : Cardinality(Invoked(a)) <= 1
        /\ \E n \in 0..3 :
              [k \in 1..Len(agent_calls) |-> agent_calls[k].agentId] =
                 SubSeq(<<SUPERVISOR_AGENT_ID, CONTENT_AGENT_ID, VISUAL_AGENT_ID>>, 1, n)
        /\ Len(image_calls) <= 3
        /\ \A k \in DOMAIN image_calls :
              image_calls[k].request.text = SamplePrompts(call.brief)[k]
        /\ \A k, l \in DOMAIN image_calls :
              image_calls[k].request.text = image_calls[l].request.text => k = l

\* the content call and the first generation failed; the run went on to the
\* end with three agent calls and three image calls
C10_Witness ==
    /\ CampaignDone
    /\ results # None
    /\ results.content # None /\ ~results.content.success
    /\ Len(agent_calls) = 3
    /\ Len(image_calls) = 3
    /\ ~image_calls[1].success /\ image_calls[2].success /\ image_calls[3].success
    /\ Len(results.generated_visuals) = 2

----------------------------------------------------------------------------
(* Claims about what generate_marketing_image stores *)

\* a call of generate_marketing_image by a library caller returns in this step
ImageCallReturns ==
    /\ pc = "idle" /\ pc' = "idle"
    /\ call' # None /\ call'.op = "generate_marketing_image"
    /\ uncaught' = NoneStr /\ result' # None

\* the file and the object a successful call would store
WrittenFile(r) == [name |-> r.filename, bytes |-> "hi"]
UploadedObject(r) ==
    [bucket |-> generator.s3_bucket, key |-> "nova-canvas/" \o r.filename, body |-> "hi"]

\* the store effects of a successful call that behaves as if called with the
\* flags save_locally and save_to_s3
StoresAs(save_locally, save_to_s3) ==
    LET r == result'
        uploads == save_to_s3 /\ generator.s3_client
    IN  /\ r.filename = FileName(next_file)
        /\ file_system' = IF save_locally
                          THEN file_system \cup {WrittenFile(r)} ELSE file_system
        /\ r.local_path = IF save_locally THEN AbsPath(r.filename) ELSE NoneStr
        /\ s3_objects' = IF uploads
                         THEN s3_objects \cup {UploadedObject(r)} ELSE s3_objects
        /\ (r.s3_url # NoneStr) <=> uploads
        /\ uploads => r.s3_url = "s3://" \o generator.s3_bucket \o "/nova-canvas/"
                                 \o r.filename

\* C11 as stated: on a successful generate the local file is written and
\* local_path set iff save_locally, the upload made and the URL set iff
\* save_to_s3 and a bucket is configured; a call that passes no flag makes no
\* upload and leaves the URL absent, even with a bucket configured.
C11_UploadOffByDefault ==
    [][(ImageCallReturns /\ result'.success) =>
          IF call'.flags_passed
          THEN StoresAs(call'.save_locally, call'.save_to_s3)
          ELSE StoresAs(TRUE, FALSE)]_vars

\* C11: on a successful generate the local file is written and local_path set
\* iff save_locally, the upload made and the URL set iff save_to_s3 and a
\* bucket is configured; save_to_s3 defaults to true, so a call that passes no
\* flag writes the file and, when a bucket is configured, uploads it and sets
\* the URL.
C11_PersistenceFollowsFlags ==
    [][(ImageCallReturns /\ result'.success) =>
          IF call'.flags_passed
          THEN StoresAs(call'.save_locally, call'.save_to_s3)
          ELSE StoresAs(TRUE, TRUE)]_vars

\* a call that passed no flag to a generator with a bucket uploaded its image
C11_Witness ==
    /\ pc = "idle"
    /\ call # None /\ call.op = "generate_marketing_image"
    /\ ~call.flags_passed
    /\ generator.s3_client
    /\ result # None /\ result.success
    /\ result.local_path # NoneStr
    /\ result.s3_url = "s3://my-bucket/nova-canvas/" \o result.filename
    /\ \E o \in s3_objects : o.key = "nova-canvas/" \o result.filename

\* C13: whenever generate_marketing_image returns success=false it has left no
\* trace in storage: the call wrote no local file and uploaded no object, at
\* whatever point it failed, a failure of the upload after the local write
\* included.
C13_FailureLeavesNoTrace ==
    [][(ImageCallReturns /\ ~result'.success) =>
          /\ file_system' = file_system
          /\ s3_objects' = s3_objects]_vars

----------------------------------------------------------------------------
(* Claims about the image batch and the session lists *)

IsSuccess(c) == c.success

\* the prompts of the image calls made so far that reported success, in call order
SucceededPrompts ==
    LET ok == SelectSeq(image_calls, IsSuccess)
    IN  [k \in 1..Len(ok) |-> ok[k].request.text]

PromptsOf(visuals) == [k \in 1..Len(visuals) |-> visuals[k].prompt]

\* C12: the image batch generates the three prompts (banner, social post,
\* product showcase) one at a time in that order; a failed generation does not
\* stop the later ones; generated_visuals holds exactly the successful
\* generations in prompt order: as many entries as calls that returned
\* success, each with the prompt of the call that produced it.
C12_VisualsAreTheSuccesses ==
    (call # None /\ call.op = "campaign_form") =>
        /\ [k \in 1..Len(image_calls) |-> image_calls[k].request.text] =
              SubSeq(SamplePrompts(call.brief), 1, Len(image_calls))
        /\ pc = "visuals" => Len(image_calls) = i - 1
        /\ PromptsOf(visuals_results) = SucceededPrompts
        /\ (CampaignDone /\ results # None /\ ~ConceptsFailed(results)) =>
              /\ Len(image_calls) = 3
              /\ results.generated_visuals = visuals_results
              /\ Len(results.generated_visuals) =
                    Cardinality({k \in 1..3 : image_calls[k].success})
              /\ PromptsOf(results.generated_visuals) = SucceededPrompts

\* the second generation failed: the result holds the first and the third
C12_Witness ==
    /\ CampaignDone
    /\ results # None /\ ~ConceptsFailed(results)
    /\ Len(image_calls) = 3
    /\ image_calls[1].success /\ ~image_calls[2].success /\ image_calls[3].success
    /\ PromptsOf(results.generated_visuals) =
          <<SamplePrompts(call.brief)[1], SamplePrompts(call.brief)[3]>>

RECURSIVE VisualsInHistory(_)
VisualsInHistory(history) ==
    IF history = <<>> THEN 0
    ELSE Len(Head(history).generated_visuals) + VisualsInHistory(Tail(history))

IsPrefix(s, t) == Len(s) <= Len(t) /\ SubSeq(t, 1, Len(s)) = s

\* C14: the session's generated-visuals list is append-only; whenever no
\* handler is running its length is the sum of the generated_visuals lengths of
\* the campaigns in the history; an image generated with the image button,
\* outside a campaign, leaves both lists unchanged.
C14_SessionVisualsMatchHistory ==
    [][/\ IsPrefix(generated_visuals, generated_visuals')
       /\ pc' = "idle" =>
             Len(generated_visuals') = VisualsInHistory(campaign_history')
       /\ (pc = "idle" /\ call' # None /\ call'.op = "image_button") =>
             UNCHANGED <<campaign_history, generated_visuals>>]_vars

\* after a campaign with visuals the image button generated an image, and the
\* lists still agree
C14_Witness ==
    /\ pc = "idle"
    /\ call # None /\ call.op = "image_button"
    /\ result # None /\ result.success
    /\ Len(campaign_history) = 2
    /\ Len(generated_visuals) = 1
    /\ VisualsInHistory(campaign_history) = 1
    /\ Cardinality(file_system) = 2

====
